---- MODULE Spec2Model ----
(***************************************************************************)
(* Grid maintenance and reconciliation engine (grid-algo).                 *)
(*                                                                         *)
(* Prices are integers counting units of 1e-9, so that the fixed          *)
(* 8-decimal rounding of the price aligner (one Quantum = 10 units) and   *)
(* the opposing-position threshold min(brick, point)/10 are exact.        *)
(***************************************************************************)
EXTENDS Integers, Sequences, FiniteSets, TLC

(***************************************************************************)
(* Program constants and the configuration the model runs                  *)
(***************************************************************************)
Quantum == 10                    \* round(x, 8): 1e-8 in units of 1e-9
Point == 10                      \* info.point of the symbol (digits = 8)
MAX_ORDERS_PER_SYMBOL == 60
ORDER_TYPE_BUY == 0
ORDER_TYPE_SELL == 1
ORDER_TYPE_BUY_STOP == 2
ORDER_TYPE_SELL_STOP == 3
PruneMultiplier == 3
global_stop_loss == 50

brick_size == 2 * Point          \* sym_cfg["brick_size"]
trade_stops_level == 0           \* info.trade_stops_level
Spread == Point                  \* ask - bid reported by the tick feed

\* Bounds of the model
AskSteps == 3                    \* asks range over AskLow .. AskLow + AskSteps * Point
MaxTicket == 4                   \* orders the broker accepts in one run
MaxEvents == 3                   \* events of the broker, market and operator
max_up == 2                      \* sym_cfg["max_up"]
max_down == 2                    \* sym_cfg["max_down"]
MaxTime == 3                     \* the clock runs over 0 .. MaxTime
closed_level_block_seconds == 1  \* config["closed_level_block_seconds"]
MaxAlignPrice == 45              \* prices given to the aligner alone
MaxAlignBrick == 16              \* brick sizes given to the aligner alone
PruneCentre == 100                \* current price of the pruner runs, in bricks
Balance == 1000                  \* account balance of the coordinator runs
DrawLow == 45                    \* least drawdown of the coordinator runs
DrawSteps == 15                  \* number of drawdown steps above it
TrailLow == 16                   \* lowest price of the trailing runs, in half points
TrailSteps == 12                 \* number of price steps of the trailing runs

Modes == {"nearest", "up", "down"}
NoPrice == -1                    \* symbol not in last_price
NoValue == -1000                 \* result not computed yet

Abs(x) == IF x < 0 THEN -x ELSE x
Min(a, b) == IF a < b THEN a ELSE b

\* Statement order: value is computed once, and F goes on from it.
Then(value, F(_)) == CHOOSE out \in {F(v) : v \in {value}} : TRUE

(***************************************************************************)
(* Price Aligner                                                           *)
(***************************************************************************)
\* Python's round(): the integer nearest num/den, ties to the even one.
RoundHalfEven(num, den) ==
    LET q == num \div den
        r == num % den
    IN  IF 2 * r < den THEN q
        ELSE IF 2 * r > den THEN q + 1
        ELSE IF q % 2 = 0 THEN q ELSE q + 1

\* round(x, 8)
Round8(x) == RoundHalfEven(x, Quantum) * Quantum

\* math.floor(ratio + 1e-12) and math.ceil(ratio - 1e-12): the prices and
\* brick sizes of the model are whole units below 1000, so a ratio is either
\* whole or at least 1/1000 away from a whole number, and the 1e-12 bias
\* never changes the result.
FloorDiv(price, brick) == price \div brick
CeilDiv(price, brick) == -((-price) \div brick)

align_price_to_grid_symbol(price, brick, mode) ==
    IF brick <= 0 THEN Round8(price)
    ELSE LET n == CASE mode = "nearest" -> RoundHalfEven(price, brick)
                    [] mode = "down" -> FloorDiv(price, brick)
                    [] mode = "up" -> CeilDiv(price, brick)
                    [] OTHER -> RoundHalfEven(price, brick)
         IN  Round8(n * brick)

Align(price) == align_price_to_grid_symbol(price, brick_size, "nearest")

\* helpers.round_price: round(price, digits), digits = 8 for Point = 1e-8
round_price(price) == RoundHalfEven(price, Point) * Point

(***************************************************************************)
(* State                                                                   *)
(***************************************************************************)
VARIABLES
    ask,              \* tick.ask of the symbol (bid = ask - Spread)
    orders,           \* broker: pending orders [ticket, type, price_open]
    positions,        \* broker: open positions [ticket, type, price_open, sl]
    nextTicket,       \* broker: next order ticket
    brokerAccepts,    \* broker: whether order_send answers TRADE_RETCODE_DONE
    ticketless,       \* broker: whether its position records carry no ticket
    clock,            \* time.time()
    budget,           \* events of the broker, market and operator still to come
    trading_active,   \* main_routes.trading_active
    cfg,              \* sym_cfg: trade_side, grid_rounding
    pending_cache,    \* _pending_cache[symbol]
    last_price,       \* last_price[symbol]
    closed_levels,    \* closed_levels: entries [price, ts] (one per price)
    initial_anchors,  \* initial_anchors[symbol]
    seen_tickets,     \* seen_position_tickets[symbol]
    pc,               \* position of the symbol's worker in run_symbol_loop
    price,            \* the worker's local price (tick.ask of this tick)
    now,              \* the worker's local now (time.time() of this tick)
    tried,            \* place_order calls of the worker's last step
    expired,          \* cool-down prices the worker's last cleanup deleted
    al,               \* the aligner applied to an input
    pr,               \* cancel_far_orders_preserve applied to an order book
    tr,               \* the trailing-stop loop
    lk,               \* threads, gateway calls and mt5_lock
    co                \* run_dynamic_grid and the account

brokerVars == <<ask, orders, positions, nextTicket, brokerAccepts, ticketless, clock,
               budget>>
workerVars == <<trading_active, cfg, pending_cache, last_price, closed_levels,
                initial_anchors, seen_tickets, pc, price, now, tried, expired>>
engineVars == <<brokerVars, workerVars>>
vars == <<engineVars, al, pr, tr, lk, co>>

bid == ask - Spread
AskLow == 7 * Point
Asks == {AskLow + k * Point : k \in 0 .. AskSteps}
min_dist == trade_stops_level * Point
NoClosedPrices == {}
ClosedPrices == {e.price : e \in closed_levels}

(***************************************************************************)
(* helpers.py / order_manager.py                                           *)
(***************************************************************************)
\* helpers.fetch_pending_orders: mt5.orders_get(symbol=symbol) or []
fetch_pending_orders_none(book) == {}
fetch_pending_orders(book) == book

\* helpers.fetch_positions: mt5.positions_get(symbol=symbol) or []
fetch_positions(open) == open

order_exists(book, p, order_type) ==
    \E o \in fetch_pending_orders(book) :
        o.type = order_type /\ round_price(o.price_open) = round_price(p)

can_place_order_always(book) == TRUE
can_place_order(book) ==
    ~(Cardinality(fetch_pending_orders(book)) >= MAX_ORDERS_PER_SYMBOL)

\* The aligned prices of the pending orders (sync_pending_cache, and
\* run_symbol_loop lines 568-571).
AlignedPending(book) == {Align(o.price_open) : o \in fetch_pending_orders(book)}

\* A world: what a step of the worker reads and writes on its way.
\*   book: the broker's pending orders, next: its next ticket,
\*   cache: _pending_cache[symbol], calls: the place_order calls made,
\*   ok: the result of the last safe_place_order.
World(book, next, cache) ==
    [book |-> book, next |-> next, cache |-> cache, calls |-> {}, ok |-> FALSE]

\* sync_pending_cache, and run_symbol_loop lines 568-571: the cache is
\* replaced by the aligned prices of the orders the broker reports.
sync_pending_cache_merge(w) ==
    [w EXCEPT !.cache = @ \cup AlignedPending(w.book)]
sync_pending_cache(w) == [w EXCEPT !.cache = AlignedPending(w.book)]

\* place_order with a result that is truthy whatever the broker answered.
place_order_truthy(w, order_type, p) ==
    LET called == [w EXCEPT !.calls = @ \cup {[type |-> order_type, price |-> p]},
                            !.ok = TRUE]
    IN  IF can_place_order(w.book) /\ ~order_exists(w.book, round_price(p), order_type)
           /\ brokerAccepts /\ w.next <= MaxTicket
        THEN [called EXCEPT
                !.book = @ \cup {[ticket |-> w.next, type |-> order_type,
                                  price_open |-> round_price(p)]},
                !.next = @ + 1]
        ELSE called

\* place_order, called under mt5_lock by _place_order_and_handle_return.
place_order(w, order_type, p) ==
    LET called == [w EXCEPT !.calls = @ \cup {[type |-> order_type, price |-> p]},
                            !.ok = FALSE]
        rp == round_price(p)
    IN  IF ~can_place_order(w.book) THEN called
        ELSE IF order_exists(w.book, rp, order_type) THEN called
        ELSE IF ~(brokerAccepts /\ w.next <= MaxTicket) THEN called
        ELSE [called EXCEPT
                !.book = @ \cup {[ticket |-> w.next, type |-> order_type,
                                  price_open |-> rp]},
                !.next = @ + 1,
                !.ok = TRUE]

(***************************************************************************)
(* utils.py: existence check and safe_place_order                          *)
(***************************************************************************)
level_has_existing_order_or_position(w, p) ==
    \/ p \in w.cache
    \/ \E o \in fetch_pending_orders(w.book) : Align(o.price_open) = p
    \/ \E q \in fetch_positions(positions) : Align(q.price_open) = p

\* The cache after the check: a level found among the broker's pending
\* orders (and not in the cache) is added to it.
LevelCheckCache(w, p) ==
    IF p \notin w.cache
       /\ \E o \in fetch_pending_orders(w.book) : Align(o.price_open) = p
    THEN w.cache \cup {p} ELSE w.cache

LevelChecked(w, p) == [w EXCEPT !.cache = LevelCheckCache(w, p)]

\* threshold = min(brick/10, point/10), in whole units
Threshold == Min(brick_size \div 10, Point \div 10)

OpposingPositionNear(order_type, p) ==
    \E q \in fetch_positions(positions) :
        /\ \/ order_type = ORDER_TYPE_BUY_STOP /\ q.type = ORDER_TYPE_SELL
           \/ order_type = ORDER_TYPE_SELL_STOP /\ q.type = ORDER_TYPE_BUY
        /\ Abs(p - Align(q.price_open)) < Threshold

TooClose(order_type, p) ==
    \/ order_type = ORDER_TYPE_BUY_STOP /\ p <= ask + min_dist
    \/ order_type = ORDER_TYPE_SELL_STOP /\ p >= bid - min_dist

safe_place_order(w, order_type, p) ==
    LET price_aligned == Align(p)
        failed == [w EXCEPT !.ok = FALSE]
    IN  IF closed_levels # {} /\ price_aligned \in ClosedPrices
        THEN failed
        ELSE IF level_has_existing_order_or_position(w, price_aligned)
        THEN [failed EXCEPT !.cache = LevelCheckCache(w, price_aligned)]
        ELSE IF order_exists(w.book, price_aligned, order_type)
        THEN [failed EXCEPT !.cache = @ \cup {price_aligned}]
        ELSE IF OpposingPositionNear(order_type, price_aligned) THEN failed
        ELSE IF TooClose(order_type, price_aligned) THEN failed
        ELSE LET r == place_order(w, order_type, price_aligned)
             IN  IF r.ok THEN [r EXCEPT !.cache = @ \cup {price_aligned}]
                 ELSE r

(***************************************************************************)
(* utils.py: the three steps of a tick                                     *)
(***************************************************************************)
SidePermitsAll(order_type) == TRUE
SidePermits(order_type) ==
    \/ cfg.trade_side = "both"
    \/ order_type = ORDER_TYPE_BUY_STOP /\ cfg.trade_side = "buy"
    \/ order_type = ORDER_TYPE_SELL_STOP /\ cfg.trade_side = "sell"

\* The i-th rung of a side from a base price.
RungFromBase(base, order_type, i) ==
    IF order_type = ORDER_TYPE_BUY_STOP
    THEN align_price_to_grid_symbol(base + brick_size * (i - 1), brick_size, "up")
    ELSE align_price_to_grid_symbol(base - brick_size * (i - 1), brick_size, "down")
Rung(base, order_type, i) ==
    IF order_type = ORDER_TYPE_BUY_STOP
    THEN align_price_to_grid_symbol(base + brick_size * i, brick_size, "up")
    ELSE align_price_to_grid_symbol(base - brick_size * i, brick_size, "down")

\* run_symbol_loop, INITIAL GRID: the rungs i .. n of one side. st is
\* [w, anchors, pending_prices].
InitialRung(st, order_type, p) ==
    LET go == p \notin st.pending_prices
              /\ ~level_has_existing_order_or_position(st.w, p)
        w1 == IF p \notin st.pending_prices THEN LevelChecked(st.w, p)
              ELSE st.w
        w2 == IF go THEN safe_place_order(w1, order_type, p) ELSE w1
    IN  [st EXCEPT !.w = w2, !.anchors = IF go THEN @ \cup {p} ELSE @]

RECURSIVE InitialSide(_, _, _, _, _)
InitialSide(st, base, order_type, i, n) ==
    IF i > n THEN st
    ELSE LET Rest(st1) == InitialSide(st1, base, order_type, i + 1, n)
         IN  Then(InitialRung(st, order_type, Rung(base, order_type, i)), Rest)

initial_grid(w0, aligned_base) ==
    LET pending == fetch_pending_orders(w0.book)
        pending_prices == AlignedPending(w0.book)
        st0 == [w |-> sync_pending_cache(w0),
                anchors |-> initial_anchors,
                pending_prices |-> pending_prices]
    IN  IF pending = {} /\ initial_anchors = {}
        THEN LET BuySide(st) ==
                     IF SidePermits(ORDER_TYPE_BUY_STOP)
                     THEN InitialSide(st, aligned_base, ORDER_TYPE_BUY_STOP,
                                      1, max_up)
                     ELSE st
                 SellSide(st) ==
                     IF SidePermits(ORDER_TYPE_SELL_STOP)
                     THEN InitialSide(st, aligned_base, ORDER_TYPE_SELL_STOP,
                                      1, max_down)
                     ELSE st
                 BothSides(st) == Then(BuySide(st), SellSide)
             IN  Then(st0, BothSides)
        ELSE st0

\* update_grid: the rungs i .. n of one side. st is [w, pending_prices].
UpdateRung(st, order_type, candidate) ==
    LET skip1 == candidate \in st.pending_prices
        skip2 == closed_levels # {} /\ candidate \in ClosedPrices
        skip3 == level_has_existing_order_or_position(st.w, candidate)
        skip4 == TooClose(order_type, candidate)
        skip == skip1 \/ skip2 \/ skip3 \/ skip4
        w1 == IF skip1 \/ skip2 THEN st.w ELSE LevelChecked(st.w, candidate)
        Placed(w2) ==
            [w |-> w2,
             pending_prices |-> IF w2.ok
                                THEN st.pending_prices \cup {candidate}
                                ELSE st.pending_prices]
    IN  IF skip THEN [st EXCEPT !.w = w1]
        ELSE Then(safe_place_order(w1, order_type, candidate), Placed)

\* The rungs i .. n - 1 of one side.
RECURSIVE UpdateSideShort(_, _, _, _, _)
UpdateSideShort(st, base, order_type, i, n) ==
    IF i > n - 1 THEN st
    ELSE LET Rest(st1) == UpdateSideShort(st1, base, order_type, i + 1, n)
         IN  Then(UpdateRung(st, order_type, Rung(base, order_type, i)), Rest)

RECURSIVE UpdateSide(_, _, _, _, _)
UpdateSide(st, base, order_type, i, n) ==
    IF i > n THEN st
    ELSE LET Rest(st1) == UpdateSide(st1, base, order_type, i + 1, n)
         IN  Then(UpdateRung(st, order_type, Rung(base, order_type, i)), Rest)

update_grid(w0, current_price) ==
    LET pending_prices == AlignedPending(w0.book)
        st0 == [w |-> sync_pending_cache(w0),
                pending_prices |-> pending_prices]
        base_nearest == align_price_to_grid_symbol(current_price, brick_size,
                                                   "nearest")
        BuySide(st) ==
            IF SidePermits(ORDER_TYPE_BUY_STOP)
            THEN UpdateSide(st, base_nearest, ORDER_TYPE_BUY_STOP, 1, max_up)
            ELSE st
        SellSide(st) ==
            IF SidePermits(ORDER_TYPE_SELL_STOP)
            THEN UpdateSide(st, base_nearest, ORDER_TYPE_SELL_STOP, 1, max_down)
            ELSE st
        BothSides(st) == Then(BuySide(st), SellSide)
    IN  Then(st0, BothSides).w

\* The ticket the Mirror Handler knows a position by: p.ticket, or the string
\* f"{price_open}_{volume}" when the position carries none.
TicketKey(q) ==
    IF q.ticket # 0 THEN <<"ticket", q.ticket>> ELSE <<"price_volume", q.price_open>>

\* positions_get returns the positions in ticket order.
PosBefore(a, b) ==
    \/ a.ticket < b.ticket
    \/ a.ticket = b.ticket /\ a.price_open < b.price_open
    \/ a.ticket = b.ticket /\ a.price_open = b.price_open /\ a.type < b.type
    \/ a.ticket = b.ticket /\ a.price_open = b.price_open /\ a.type = b.type
       /\ a.sl < b.sl

RECURSIVE PositionList(_)
PositionList(S) ==
    IF S = {} THEN <<>>
    ELSE LET first == CHOOSE a \in S : \A b \in S \ {a} : PosBefore(a, b)
         IN  <<first>> \o PositionList(S \ {first})

\* The mirror rungs i .. n of one new position.
RECURSIVE MirrorSideShort(_, _, _, _, _)
MirrorSideShort(w, price_open, order_type, i, n) ==
    IF i > n - 1 THEN w
    ELSE LET p == Rung(price_open, order_type, i)
             skip == level_has_existing_order_or_position(w, p)
             w1 == IF skip THEN LevelChecked(w, p)
                   ELSE safe_place_order(w, order_type, p)
             Rest(w2) == MirrorSideShort(w2, price_open, order_type, i + 1, n)
         IN  Then(w1, Rest)

MirrorRung(w, order_type, p) ==
    LET skip1 == closed_levels # {} /\ p \in ClosedPrices
        skip2 == level_has_existing_order_or_position(w, p)
        w1 == IF skip1 THEN w ELSE LevelChecked(w, p)
        skip3 == p \in w1.cache
        skip4 == order_exists(w1.book, p, order_type)
    IN  IF skip1 \/ skip2 \/ skip3 THEN w1
        ELSE IF skip4 THEN [w1 EXCEPT !.cache = @ \cup {p}]
        ELSE safe_place_order(w1, order_type, p)

RECURSIVE MirrorSide(_, _, _, _, _)
MirrorSide(w, price_open, order_type, i, n) ==
    IF i > n THEN w
    ELSE LET Rest(w2) == MirrorSide(w2, price_open, order_type, i + 1, n)
         IN  Then(MirrorRung(w, order_type, Rung(price_open, order_type, i)),
                  Rest)

\* handle_new_positions_and_create_mirrors, the loop over the positions.
\* st is [w, seen].
RECURSIVE MirrorPositions(_, _, _)
MirrorPositions(st, list, k) ==
    IF k > Len(list) THEN st
    ELSE LET q == list[k]
             ticket == TicketKey(q)
             price_open == Align(q.price_open)
             w1 == IF ticket \in st.seen THEN st.w
                   ELSE IF q.type = ORDER_TYPE_BUY /\ cfg.trade_side \in {"sell", "both"}
                   THEN MirrorSide(st.w, price_open, ORDER_TYPE_SELL_STOP, 1, max_down)
                   ELSE IF q.type = ORDER_TYPE_SELL /\ cfg.trade_side \in {"buy", "both"}
                   THEN MirrorSide(st.w, price_open, ORDER_TYPE_BUY_STOP, 1, max_up)
                   ELSE st.w
             Rest(st1) == MirrorPositions(st1, list, k + 1)
         IN  Then([w |-> w1, seen |-> st.seen \cup {ticket}], Rest)

\* Tickets seen before and absent now: a string ticket starts a cool-down at
\* the price it names.
GoneTicketsNone(seen, open) == {}
GoneTickets(seen, open) == seen \ {TicketKey(q) : q \in open}
ClosedPricesOf(gone) == {t[2] : t \in {g \in gone : g[1] = "price_volume"}}

\* handle_new_positions_and_create_mirrors: the world after the mirrors, the
\* tickets still seen, and the prices whose cool-down starts.
handle_new_positions_and_create_mirrors(w0) ==
    LET open == fetch_positions(positions)
        Closing(st) ==
            [w |-> st.w,
             seen |-> st.seen \ GoneTickets(st.seen, open),
             closed |-> ClosedPricesOf(GoneTickets(st.seen, open))]
    IN  Then(MirrorPositions([w |-> w0, seen |-> seen_tickets],
                             PositionList(open), 1),
             Closing)

(***************************************************************************)
(* run_symbol_loop: one worker, one tick in four steps                     *)
(***************************************************************************)
PurgedNothing(entries, t) == entries
Purged(entries, t) ==
    {e \in entries : ~(t - e.ts > closed_level_block_seconds)}

\* Lines 550-553: the grid_tolerance check of the tick price p.
WithinToleranceNever(p) == FALSE
WithinTolerance(p) ==
    last_price # NoPrice /\ Abs(p - last_price) < cfg.grid_tolerance

\* Lines 531-553: the flag, the cool-down cleanup, the tick, the tolerance.
TickBegin ==
    /\ pc = "top"
    /\ IF ~trading_active
       THEN /\ pc' = "done"
            /\ UNCHANGED <<closed_levels, price, now, expired>>
       ELSE /\ now' = clock
            /\ closed_levels' = Purged(closed_levels, clock)
            /\ expired' = {e.price : e \in closed_levels \ Purged(closed_levels, clock)}
            /\ price' = ask
            /\ pc' = IF WithinTolerance(ask) THEN "top" ELSE "initial"
    /\ tried' = {}
    /\ UNCHANGED <<brokerVars, trading_active, cfg, pending_cache, last_price,
                   initial_anchors, seen_tickets, al, pr, tr, lk, co>>

\* Lines 565-589: the anchor, the pending sync and the initial ladder.
InitialGrid ==
    /\ pc = "initial"
    /\ \E st \in {initial_grid(World(orders, nextTicket, pending_cache),
                                 align_price_to_grid_symbol(
                                     price, brick_size, cfg.grid_rounding))} :
           /\ orders' = st.w.book
           /\ nextTicket' = st.w.next
           /\ pending_cache' = st.w.cache
           /\ initial_anchors' = st.anchors
           /\ tried' = st.w.calls
    /\ pc' = "update"
    /\ UNCHANGED <<ask, positions, brokerAccepts, ticketless, clock, budget, trading_active, cfg,
                   last_price, closed_levels, seen_tickets, price, now, expired,
                   al, pr, tr, lk, co>>

\* Lines 591-603: update_grid.
UpdateGrid ==
    /\ pc = "update"
    /\ \E w \in {update_grid(World(orders, nextTicket, pending_cache), price)} :
           /\ orders' = w.book
           /\ nextTicket' = w.next
           /\ pending_cache' = w.cache
           /\ tried' = w.calls
    /\ pc' = "mirror"
    /\ UNCHANGED <<ask, positions, brokerAccepts, ticketless, clock, budget, trading_active, cfg,
                   last_price, closed_levels, initial_anchors, seen_tickets,
                   price, now, expired, al, pr, tr, lk, co>>

\* Lines 605-614: handle_new_positions_and_create_mirrors, last_price.
Mirrors ==
    /\ pc = "mirror"
    /\ \E st \in {handle_new_positions_and_create_mirrors(
                        World(orders, nextTicket, pending_cache))} :
           /\ orders' = st.w.book
           /\ nextTicket' = st.w.next
           /\ tried' = st.w.calls
           /\ pending_cache' = st.w.cache \ st.closed
           /\ seen_tickets' = st.seen
           /\ closed_levels' = {e \in closed_levels : e.price \notin st.closed}
                               \cup {[price |-> c, ts |-> clock] : c \in st.closed}
    /\ last_price' = price
    /\ pc' = "top"
    /\ UNCHANGED <<ask, positions, brokerAccepts, ticketless, clock, budget, trading_active, cfg,
                   initial_anchors, price, now, expired, al, pr, tr, lk, co>>

(***************************************************************************)
(* The broker, the market, the operator and the clock                      *)
(***************************************************************************)
PriceMove ==
    /\ budget > 0
    /\ budget' = budget - 1
    /\ \E a \in Asks \ {ask} : ask' = a
    /\ UNCHANGED <<orders, positions, nextTicket, brokerAccepts, ticketless, clock,
                   workerVars, al, pr, tr, lk, co>>

\* A stop order the price has reached becomes a position; the position
\* carries the order's ticket, or none.
Fill ==
    /\ budget > 0
    /\ budget' = budget - 1
    /\ \E o \in orders :
          /\ \/ o.type = ORDER_TYPE_BUY_STOP /\ ask >= o.price_open
             \/ o.type = ORDER_TYPE_SELL_STOP /\ bid <= o.price_open
          /\ positions' = positions \cup
                    {[ticket |-> IF ticketless THEN 0 ELSE o.ticket,
                      type |-> IF o.type = ORDER_TYPE_BUY_STOP
                               THEN ORDER_TYPE_BUY ELSE ORDER_TYPE_SELL,
                      price_open |-> o.price_open, sl |-> 0]}
          /\ orders' = orders \ {o}
    /\ UNCHANGED <<ask, nextTicket, brokerAccepts, ticketless, clock, workerVars,
                   al, pr, tr, lk, co>>

\* The user or the broker removes a pending order.
OrderRemoved ==
    /\ budget > 0
    /\ budget' = budget - 1
    /\ \E o \in orders : orders' = orders \ {o}
    /\ UNCHANGED <<ask, positions, nextTicket, brokerAccepts, ticketless, clock, workerVars,
                   al, pr, tr, lk, co>>

PositionClose ==
    /\ budget > 0
    /\ budget' = budget - 1
    /\ \E q \in positions : positions' = positions \ {q}
    /\ UNCHANGED <<ask, orders, nextTicket, brokerAccepts, ticketless, clock, workerVars,
                   al, pr, tr, lk, co>>

BrokerToggle ==
    /\ budget > 0
    /\ budget' = budget - 1
    /\ brokerAccepts' = ~brokerAccepts
    /\ UNCHANGED <<ask, orders, positions, nextTicket, ticketless, clock, workerVars,
                   al, pr, tr, lk, co>>

AdvanceClock ==
    /\ clock < MaxTime
    /\ clock' = clock + 1
    /\ UNCHANGED <<ask, orders, positions, nextTicket, brokerAccepts, ticketless,
                   budget, workerVars, al, pr, tr, lk, co>>

\* main_routes.stop_trading_loop
stop_trading_loop ==
    /\ trading_active
    /\ trading_active' = FALSE
    /\ budget > 0
    /\ budget' = budget - 1
    /\ UNCHANGED <<ask, orders, positions, nextTicket, brokerAccepts, ticketless, clock,
                   cfg, pending_cache, last_price, closed_levels,
                   initial_anchors, seen_tickets, pc, price, now, tried, expired,
                   al, pr, tr, lk, co>>

Idle == [pc |-> "idle"]

\* The symbol configurations a run may start with (no initial_levels_buy or
\* initial_levels_sell: they default to max_up and max_down).
Configs ==
    {[trade_side |-> "both", grid_rounding |-> m, grid_tolerance |-> 0] :
        m \in Modes}
    \cup {[trade_side |-> s, grid_rounding |-> "nearest", grid_tolerance |-> 0] :
        s \in {"buy", "sell"}}

\* A run may start with a position of an earlier run still open.
OldTicket == 100
OpenAtStart ==
    {{}, {[ticket |-> OldTicket, type |-> ORDER_TYPE_BUY,
           price_open |-> AskLow + brick_size, sl |-> 0]}}

InitEngine(tl, configs, open) ==
    /\ ask \in Asks
    /\ orders = {}
    /\ positions \in open
    /\ nextTicket = 1
    /\ brokerAccepts = TRUE
    /\ ticketless = tl
    /\ clock = 0
    /\ budget = MaxEvents
    /\ trading_active = TRUE
    /\ cfg \in configs
    /\ pending_cache = {}
    /\ last_price = NoPrice
    /\ closed_levels = {}
    /\ initial_anchors = {}
    /\ seen_tickets = {}
    /\ pc = "top"
    /\ price = 0
    /\ now = 0
    /\ tried = {}
    /\ expired = {}

Init ==
    /\ InitEngine(FALSE, Configs, OpenAtStart)
    /\ al = Idle /\ pr = Idle /\ tr = Idle /\ lk = Idle /\ co = Idle

Next ==
    \/ TickBegin
    \/ InitialGrid
    \/ UpdateGrid
    \/ Mirrors
    \/ PriceMove
    \/ Fill
    \/ OrderRemoved
    \/ PositionClose
    \/ BrokerToggle
    \/ stop_trading_loop

Spec == Init /\ [][Next]_vars

(***************************************************************************)
(* Properties of the ladder (Spec)                                         *)
(***************************************************************************)
StopsOf(book, order_type) == {o \in book : o.type = order_type}
CallsOf(calls, order_type) == {c.price : c \in {d \in calls : d.type = order_type}}
PositionAt(p) == \E q \in positions : Align(q.price_open) = p
PendingAt(book, p) == \E o \in book : Align(o.price_open) = p

C2_BoundedLadder ==
    /\ Cardinality(StopsOf(orders, ORDER_TYPE_BUY_STOP)) <= max_up
    /\ Cardinality(StopsOf(orders, ORDER_TYPE_SELL_STOP)) <= max_down

\* The anchor of the tick in progress.
Anchor == align_price_to_grid_symbol(price, brick_size, cfg.grid_rounding)
InitialStep ==
    pc = "initial" /\ pc' = "update" /\ orders = {} /\ initial_anchors = {}

C6_Rungs(order_type) ==
    IF order_type = ORDER_TYPE_BUY_STOP
    THEN IF cfg.trade_side \in {"buy", "both"}
         THEN {Anchor + i * brick_size : i \in 1 .. max_up} ELSE {}
    ELSE IF cfg.trade_side \in {"sell", "both"}
         THEN {Anchor - i * brick_size : i \in 1 .. max_down} ELSE {}

C6_Attempted(order_type) ==
    {p \in C6_Rungs(order_type) :
        /\ ~PositionAt(p)
        /\ p \notin ClosedPrices
        /\ IF order_type = ORDER_TYPE_BUY_STOP THEN p > ask + min_dist
           ELSE p < bid - min_dist}

MirrorStep == pc = "mirror" /\ pc' = "top"
NewPositions == {q \in positions : TicketKey(q) \notin seen_tickets}

\* A level the duplicate, cool-down, minimum-distance or opposing-position
\* check blocks, as the broker and the caches stand before the pass.
C7_Blocked(order_type, p) ==
    \/ p \in pending_cache
    \/ PendingAt(orders, p)
    \/ PositionAt(p)
    \/ p \in ClosedPrices
    \/ order_type = ORDER_TYPE_BUY_STOP /\ p <= ask + min_dist
    \/ order_type = ORDER_TYPE_SELL_STOP /\ p >= bid - min_dist

C7_Mirrors ==
    {[type |-> ORDER_TYPE_SELL_STOP, price |-> Align(q.price_open) - i * brick_size] :
        q \in {n \in NewPositions : n.type = ORDER_TYPE_BUY
                                    /\ cfg.trade_side \in {"sell", "both"}},
        i \in 1 .. max_down}
    \cup
    {[type |-> ORDER_TYPE_BUY_STOP, price |-> Align(q.price_open) + i * brick_size] :
        q \in {n \in NewPositions : n.type = ORDER_TYPE_SELL
                                    /\ cfg.trade_side \in {"buy", "both"}},
        i \in 1 .. max_up}

C7_Unblocked == {c \in C7_Mirrors : ~C7_Blocked(c.type, c.price)}

\* C7: a pass of the Mirror Handler attempts a placement only at unblocked
\* mirror levels of the positions it observes for the first time, at every
\* such level (unless a mirror placed earlier in the pass already occupies
\* it), and the tickets of all observed positions are then in SeenTicketSet.
C7_MirrorOnFill ==
    [][MirrorStep =>
        /\ tried' \subseteq C7_Unblocked
        /\ \A c \in C7_Unblocked : c \in tried' \/ PendingAt(orders', c.price)
        /\ \A q \in positions : TicketKey(q) \in seen_tickets'
      ]_vars

\* A buy position filled from the ladder was seen for the first time and a
\* sell-stop mirror was placed one brick below its fill price.
C7_Witness ==
    /\ pc = "top"
    /\ \E q \in positions :
          /\ q.type = ORDER_TYPE_BUY
          /\ q.ticket # OldTicket
          /\ TicketKey(q) \in seen_tickets
          /\ [type |-> ORDER_TYPE_SELL_STOP,
              price |-> Align(q.price_open) - brick_size] \in tried
          /\ \E o \in orders : /\ o.type = ORDER_TYPE_SELL_STOP
                               /\ o.price_open = Align(q.price_open) - brick_size
                               /\ o.ticket > q.ticket

\* C25: a step of the worker that refreshes the cache (the initial ladder
\* and the Grid Maintainer start with the refresh) leaves in the cache the
\* aligned prices of the orders the broker reported and, besides them, only
\* prices of orders placed after the refresh: no other price cached before
\* survives.
C25_CacheReplaced ==
    [][(pc \in {"initial", "update"} /\ pc' # pc) =>
          /\ AlignedPending(orders) \subseteq pending_cache'
          /\ pending_cache' \subseteq
                 AlignedPending(orders) \cup AlignedPending(orders' \ orders)
      ]_vars

\* An order the engine placed has become a position, and the refresh after
\* that dropped its price from the cache.
C25_Witness ==
    /\ pc = "mirror"
    /\ \E q \in positions :
          /\ q.ticket # OldTicket
          /\ Align(q.price_open) \notin pending_cache
          /\ ~PendingAt(orders, Align(q.price_open))

(***************************************************************************)
(* The cool-down ledger over time (SpecCool): the clock runs, and the       *)
(* broker's position records carry no ticket, so that the Mirror Handler   *)
(* knows them by price and starts a cool-down when one disappears.         *)
(***************************************************************************)
\* The positions open when the engine starts: none, or a buy position on a
\* grid level above the market, its record carrying no ticket.
OpenTicketless ==
    {{}, {[ticket |-> 0, type |-> ORDER_TYPE_BUY,
           price_open |-> AskLow + brick_size + Point, sl |-> 0]}}

InitCool ==
    /\ InitEngine(TRUE,
                  {[trade_side |-> "both", grid_rounding |-> "nearest",
                    grid_tolerance |-> 0]},
                  OpenTicketless)
    /\ al = Idle /\ pr = Idle /\ tr = Idle /\ lk = Idle /\ co = Idle

NextCool == Next \/ AdvanceClock

SpecCool == InitCool /\ [][NextCool]_vars

\* The worker is between the cleanup of a tick and the last check of it.
Checking == pc \in {"initial", "update", "mirror"}

\* C3 (as claimed): an entry created at time t is absent at every check made
\* at a time >= t + closed_level_block_seconds.
C3_Original ==
    Checking =>
        \A e \in closed_levels : ~(clock >= e.ts + closed_level_block_seconds)

\* C3 (amended): an entry created at time t is absent at every check of a
\* tick whose cleanup ran at a time > t + closed_level_block_seconds.
C3_CoolDownExpiry ==
    Checking =>
        \A e \in closed_levels : ~(now > e.ts + closed_level_block_seconds)

\* The cleanup of the tick in progress deleted an expired entry.
C3_Witness ==
    /\ Checking
    /\ expired # {}
    /\ expired \cap ClosedPrices = {}

(***************************************************************************)
(* The Price Aligner alone (SpecAlign): a price, a brick size and a mode   *)
(* are given, the aligner is applied, and applied again to its own result. *)
(***************************************************************************)
\* The engine before its first tick; the specifications of single
\* components leave it there.
EngineAtRest ==
    /\ InitEngine(FALSE,
                  {[trade_side |-> "both", grid_rounding |-> "nearest",
                    grid_tolerance |-> 0]},
                  {{}})
    /\ ask = AskLow

InitAlign ==
    /\ EngineAtRest
    /\ al \in [pc : {"given"}, price : 0 .. MaxAlignPrice,
               brick_size : 1 .. MaxAlignBrick, mode : Modes,
               once : {NoValue}, twice : {NoValue}]
    /\ pr = Idle /\ tr = Idle /\ lk = Idle /\ co = Idle

AlignOnce ==
    /\ al.pc = "given"
    /\ al' = [al EXCEPT !.pc = "once",
                        !.once = align_price_to_grid_symbol(
                                     al.price, al.brick_size, al.mode)]
    /\ UNCHANGED <<engineVars, pr, tr, lk, co>>

AlignTwice ==
    /\ al.pc = "once"
    /\ al' = [al EXCEPT !.pc = "twice",
                        !.twice = align_price_to_grid_symbol(
                                      al.once, al.brick_size, al.mode)]
    /\ UNCHANGED <<engineVars, pr, tr, lk, co>>

NextAlign == AlignOnce \/ AlignTwice

SpecAlign == InitAlign /\ [][NextAlign]_vars

\* C5: aligning an aligned price again changes nothing, the aligned price is
\* a whole multiple of the brick size, mode "up" gives a result >= the price
\* and mode "down" a result <= the price.
C5_Idempotence ==
    al.pc = "twice" =>
        /\ al.twice = al.once
        /\ al.once % al.brick_size = 0
        /\ al.mode = "up" => al.once >= al.price
        /\ al.mode = "down" => al.once <= al.price

(***************************************************************************)
(* The Trailing-Stop Adjuster alone (SpecTrail): one open position, the    *)
(* market moving, and update_trailing_stop run again and again.            *)
(***************************************************************************)
\* round_price of start_trailing_loop: round(price / rounding) * rounding
trailing_round_price(p, rounding) ==
    IF rounding = 0 THEN p ELSE RoundHalfEven(p, rounding) * rounding

\* The stop update_trailing_stop computes for position pos at current_price
\* (NoValue when it computes none).
new_sl(pos, current_price, trailing_pips) ==
    IF pos.type = ORDER_TYPE_BUY
    THEN IF pos.sl = 0 \/ current_price - pos.sl > trailing_pips
         THEN trailing_round_price(current_price - trailing_pips, brick_size)
         ELSE NoValue
    ELSE IF pos.sl = 0 \/ pos.sl - current_price > trailing_pips
         THEN trailing_round_price(current_price + trailing_pips, brick_size)
         ELSE NoValue

\* round_price of start_trailing_loop returns the floating-point product
\* round(price / rounding) * rounding and does not round it to a precision
\* (the aligner ends with round(x, 8)): the result is the decimal product or
\* is off it by a residue far below the price quantum
\* (round(0.31 / 0.1) * 0.1 is 0.30000000000000004).
FloatResidues == {0, 1}

TrailPrices == {k * (Point \div 2) : k \in TrailLow .. TrailLow + TrailSteps}
TrailStops == {0} \cup {k * (Point \div 2) : k \in TrailLow .. TrailLow + 4}

InitTrail ==
    /\ EngineAtRest
    /\ tr \in [pc : {"run"}, type : {ORDER_TYPE_BUY, ORDER_TYPE_SELL},
               sl : TrailStops, bid : TrailPrices,
               trailing_stop_pips : {Point}, request : {NoValue}]
    /\ al = Idle /\ pr = Idle /\ lk = Idle /\ co = Idle

TrailTick ==
    /\ tr.pc = "run"
    /\ \E p \in TrailPrices \ {tr.bid} :
           tr' = [tr EXCEPT !.bid = p, !.request = NoValue]
    /\ UNCHANGED <<engineVars, al, pr, lk, co>>

\* One pass of update_trailing_stop over the position: the request that is
\* sent (if any) and the broker's answer to it.
update_trailing_stop ==
    /\ tr.pc = "run"
    /\ LET current_price == IF tr.type = ORDER_TYPE_BUY
                            THEN tr.bid ELSE tr.bid + Spread
           sl == new_sl(tr, current_price, tr.trailing_stop_pips)
       IN  \E residue \in FloatResidues :
               IF sl # NoValue /\ sl + residue # tr.sl
               THEN \E done \in BOOLEAN :
                        tr' = [tr EXCEPT !.request = sl + residue,
                                         !.sl = IF done THEN sl + residue ELSE @]
               ELSE tr' = [tr EXCEPT !.request = NoValue]
    /\ UNCHANGED <<engineVars, al, pr, lk, co>>

NextTrail == TrailTick \/ update_trailing_stop

SpecTrail == InitTrail /\ [][NextTrail]_vars

\* C4: every stop-loss modification sent for a buy position with a non-zero
\* stop asks for a stop >= that stop, and every one sent for a sell position
\* with a non-zero stop asks for a stop <= that stop.
C4_TrailingMonotone ==
    [][(tr'.request # NoValue /\ tr.sl # 0) =>
          /\ tr.type = ORDER_TYPE_BUY => tr'.request >= tr.sl
          /\ tr.type = ORDER_TYPE_SELL => tr'.request <= tr.sl
      ]_vars

\* C22: a stop modification is sent for a buy position only if it has no
\* stop or bid - stop > trailing distance, for a sell position only if it has
\* no stop or stop - ask > trailing distance; the stop asked for is
\* align(bid - distance), resp. align(ask + distance), and nothing is sent
\* when that stop equals the existing one.
C22_TrailingRequest ==
    [][tr'.request # NoValue =>
          /\ tr.type = ORDER_TYPE_BUY =>
                /\ tr.sl = 0 \/ tr.bid - tr.sl > tr.trailing_stop_pips
                /\ tr'.request = Align(tr.bid - tr.trailing_stop_pips)
          /\ tr.type = ORDER_TYPE_SELL =>
                /\ tr.sl = 0 \/ tr.sl - (tr.bid + Spread) > tr.trailing_stop_pips
                /\ tr'.request = Align(tr.bid + Spread + tr.trailing_stop_pips)
          /\ tr'.request # tr.sl
      ]_vars

(***************************************************************************)
(* The Far-Order Pruner alone (SpecPrune): a book of pending orders, a     *)
(* current price and a set of preserved prices are given, and              *)
(* cancel_far_orders_preserve runs once over the book.                     *)
(***************************************************************************)
PruneCurrent == PruneCentre * brick_size
PruneBook ==
    {[ticket |-> 1, type |-> ORDER_TYPE_BUY_STOP,
      price_open |-> PruneCurrent + 10 * brick_size],
     [ticket |-> 2, type |-> ORDER_TYPE_BUY_STOP,
      price_open |-> PruneCurrent + 7 * brick_size],
     [ticket |-> 3, type |-> ORDER_TYPE_BUY_STOP,
      price_open |-> PruneCurrent + 6 * brick_size],
     [ticket |-> 4, type |-> ORDER_TYPE_BUY_STOP,
      price_open |-> PruneCurrent + 5 * brick_size],
     [ticket |-> 5, type |-> ORDER_TYPE_BUY_STOP,
      price_open |-> PruneCurrent - 7 * brick_size],
     [ticket |-> 6, type |-> ORDER_TYPE_SELL_STOP,
      price_open |-> PruneCurrent - 10 * brick_size],
     [ticket |-> 7, type |-> ORDER_TYPE_SELL_STOP,
      price_open |-> PruneCurrent - 7 * brick_size],
     [ticket |-> 8, type |-> ORDER_TYPE_SELL_STOP,
      price_open |-> PruneCurrent - 6 * brick_size],
     [ticket |-> 9, type |-> ORDER_TYPE_SELL_STOP,
      price_open |-> PruneCurrent + 7 * brick_size]}

\* order_manager.cancel_far_orders: the limits one ladder away, nothing
\* preserved.
cancel_far_orders_near(book, current_price, preserve_prices) ==
    LET upper_limit == current_price + brick_size * max_up
        lower_limit == current_price - brick_size * max_down
    IN  {o \in fetch_pending_orders(book) :
            \/ o.type = ORDER_TYPE_BUY_STOP /\ o.price_open > upper_limit
            \/ o.type = ORDER_TYPE_SELL_STOP /\ o.price_open < lower_limit}

\* The orders cancel_far_orders_preserve calls remove_order for.
cancel_far_orders_preserve(book, current_price, preserve_prices) ==
    LET upper_limit == current_price + brick_size * (max_up * PruneMultiplier)
        lower_limit == current_price - brick_size * (max_down * PruneMultiplier)
    IN  {o \in fetch_pending_orders(book) :
            /\ round_price(o.price_open) \notin preserve_prices
            /\ \/ o.type = ORDER_TYPE_BUY_STOP /\ o.price_open > upper_limit
               \/ o.type = ORDER_TYPE_SELL_STOP /\ o.price_open < lower_limit}

InitPrune ==
    /\ EngineAtRest
    /\ pr \in [pc : {"given"}, given : SUBSET PruneBook, book : {{}},
               current_price : {PruneCurrent},
               preserve_prices : SUBSET {PruneCurrent + 10 * brick_size,
                                         PruneCurrent - 7 * brick_size},
               removed : {{}}]
    /\ al = Idle /\ tr = Idle /\ lk = Idle /\ co = Idle

\* One run of the pruner; the broker answers each remove_order with
\* TRADE_RETCODE_DONE or refuses it.
Prune ==
    /\ pr.pc = "given"
    /\ LET far == cancel_far_orders_preserve(pr.given, pr.current_price,
                                             pr.preserve_prices)
       IN  \E done \in SUBSET far :
               pr' = [pr EXCEPT !.pc = "done", !.removed = far,
                                !.book = pr.given \ done]
    /\ UNCHANGED <<engineVars, al, tr, lk, co>>

NextPrune == Prune

SpecPrune == InitPrune /\ [][NextPrune]_vars

\* C8: the pruner asks to cancel exactly the buy-stops above
\* current + brick * 3 * max_up and the sell-stops below
\* current - brick * 3 * max_down whose price is not preserved, and every
\* other pending order is still pending after it.
C8_Prune ==
    pr.pc = "done" =>
        /\ \A o \in pr.given :
              o \in pr.removed <=>
                  /\ o.price_open \notin pr.preserve_prices
                  /\ \/ /\ o.type = ORDER_TYPE_BUY_STOP
                        /\ o.price_open >
                               pr.current_price + brick_size * 3 * max_up
                     \/ /\ o.type = ORDER_TYPE_SELL_STOP
                        /\ o.price_open <
                               pr.current_price - brick_size * 3 * max_down
        /\ pr.book \subseteq pr.given
        /\ pr.given \ pr.book \subseteq pr.removed

\* A far buy-stop was cancelled, the one at the limit and a nearer one were
\* kept, and a far but preserved sell-stop was kept.
C8_Witness ==
    /\ pr.pc = "done"
    /\ \E o \in pr.removed :
           /\ o.ticket = 2
           /\ o \notin pr.book
    /\ \E o \in pr.book : o.ticket = 3
    /\ \E o \in pr.book : o.ticket = 4
    /\ \E o \in pr.book \ pr.removed :
           /\ o.ticket = 7
           /\ o.price_open \in pr.preserve_prices

(***************************************************************************)
(* The coordinator and the stop signal (SpecCoord): run_dynamic_grid has   *)
(* started one worker per symbol and waits on the trading flag while the   *)
(* account's equity moves.                                                 *)
(***************************************************************************)
Symbols == {"s1", "s2", "s3"}
Equities == {Balance - d : d \in DrawLow .. DrawLow + DrawSteps}

InitCoord ==
    /\ EngineAtRest
    /\ co = [pc |-> "wait", passes |-> 0, trading_active |-> TRUE,
             balance |-> Balance,
             equity |-> Balance - DrawLow,
             worker |-> [s \in Symbols |-> "loop"]]
    /\ al = Idle /\ pr = Idle /\ tr = Idle /\ lk = Idle

AccountChange ==
    /\ \E e \in Equities \ {co.equity} : co' = [co EXCEPT !.equity = e]
    /\ UNCHANGED <<engineVars, al, pr, tr, lk>>

\* One pass of the wait loop of run_dynamic_grid,
\* while trading_active_flag(): time.sleep(0.5); passes counts them modulo 2.
run_dynamic_grid ==
    /\ co.pc = "wait"
    /\ co' = [co EXCEPT !.pc = IF co.trading_active THEN "wait" ELSE "done",
                        !.passes = 1 - @]
    /\ UNCHANGED <<engineVars, al, pr, tr, lk>>

\* One test of the loop condition of a worker: while trading_active_flag()
run_symbol_loop(s) ==
    /\ co.worker[s] = "loop"
    /\ co' = [co EXCEPT !.worker[s] =
                           IF co.trading_active THEN "loop" ELSE "done"]
    /\ UNCHANGED <<engineVars, al, pr, tr, lk>>

\* The operator's stop request (main_routes.stop_trading_loop).
stop_request ==
    /\ co.trading_active
    /\ co' = [co EXCEPT !.trading_active = FALSE]
    /\ UNCHANGED <<engineVars, al, pr, tr, lk>>

NextCoord ==
    \/ AccountChange
    \/ run_dynamic_grid
    \/ \E s \in Symbols : run_symbol_loop(s)
    \/ stop_request

SpecCoord == InitCoord /\ [][NextCoord]_vars

\* C9: a pass of the coordinator that starts with balance - equity at or
\* above the global ceiling leaves the stop signal set (the trading flag
\* cleared) for the workers.
C9_DrawdownStop ==
    [][(/\ co'.passes # co.passes
        /\ co.balance - co.equity >= global_stop_loss)
       => ~co'.trading_active
      ]_vars

(***************************************************************************)
(* The threads at the broker gateway (SpecLock): two symbol workers and    *)
(* the trailing-stop loop, each going round its gateway calls, some made   *)
(* under mt5_lock and some not.                                            *)
(***************************************************************************)
Threads == {"worker1", "worker2", "trailing"}

\* The gateway calls of one tick of run_symbol_loop, in order, whether the
\* call is made inside "with mt5_lock", and the number of gateway calls made
\* before the lock is released: symbol_info_tick and symbol_info at lines
\* 344-345; orders_get (can_place_order), orders_get (order_exists) and
\* order_send in place_order at line 187.
WorkerCalls ==
    <<[call |-> "symbol_info_tick", line |-> 70, locked |-> TRUE, calls |-> 1],
      [call |-> "orders_get", line |-> 568, locked |-> FALSE, calls |-> 1],
      [call |-> "orders_get", line |-> 145, locked |-> TRUE, calls |-> 1],
      [call |-> "symbol_info_tick", line |-> 344, locked |-> TRUE, calls |-> 2],
      [call |-> "order_send", line |-> 187, locked |-> TRUE, calls |-> 3],
      [call |-> "positions_get", line |-> 414, locked |-> FALSE, calls |-> 1],
      [call |-> "symbol_info", line |-> 424, locked |-> TRUE, calls |-> 1]>>

\* The trailing loop makes the gateway calls of update_trailing_stop
\* (positions_get, then symbol_info_tick and order_send for a position)
\* inside one "with mt5_lock".
TrailingCalls ==
    <<[call |-> "update_trailing_stop", line |-> 160, locked |-> TRUE,
       calls |-> 3]>>

CallsOfThread(t) == IF t = "trailing" THEN TrailingCalls ELSE WorkerCalls

InitLock ==
    /\ EngineAtRest
    /\ lk = [pc |-> "run", mt5_lock |-> "free",
             at |-> [t \in Threads |-> 1],
             inside |-> [t \in Threads |-> FALSE]]
    /\ al = Idle /\ pr = Idle /\ tr = Idle /\ co = Idle

\* Thread t enters its next gateway call, taking mt5_lock first where the
\* call site does.
GatewayEnter(t) ==
    /\ ~lk.inside[t]
    /\ LET c == CallsOfThread(t)[lk.at[t]]
       IN  /\ c.locked => lk.mt5_lock = "free"
           /\ lk' = [lk EXCEPT !.inside[t] = TRUE,
                               !.mt5_lock = IF c.locked THEN t ELSE @]
    /\ UNCHANGED <<engineVars, al, pr, tr, co>>

\* The call of thread t returns; the lock it took for it is released.
GatewayReturn(t) ==
    /\ lk.inside[t]
    /\ LET calls == CallsOfThread(t)
           c == calls[lk.at[t]]
       IN  lk' = [lk EXCEPT !.inside[t] = FALSE,
                            !.mt5_lock = IF c.locked THEN "free" ELSE @,
                            !.at[t] = IF lk.at[t] = Len(calls)
                                      THEN 1 ELSE lk.at[t] + 1]
    /\ UNCHANGED <<engineVars, al, pr, tr, co>>

NextLock ==
    \/ \E t \in Threads : GatewayEnter(t)
    \/ \E t \in Threads : GatewayReturn(t)

SpecLock == InitLock /\ [][NextLock]_vars

\* C10: at most one thread is inside a broker gateway call.
C10_MutualExclusion ==
    lk.pc = "run" => Cardinality({t \in Threads : lk.inside[t]}) <= 1

\* C21: a thread that holds mt5_lock makes one gateway call before it
\* releases the lock.
C21_OneCallPerHold ==
    lk.pc = "run" =>
        \A t \in Threads :
            lk.mt5_lock = t => CallsOfThread(t)[lk.at[t]].calls = 1

(***************************************************************************)
(* The cool-down ledger and the Mirror Handler                             *)
(***************************************************************************)
\* C18: a Mirror Handler pass that finds a seen ticket absent from the live
\* position list records a ClosedLevelEntry with the current time and drops
\* the ticket from SeenTicketSet, whatever kind of ticket it is.
C18_ClosedRecorded ==
    [][(MirrorStep /\ GoneTickets(seen_tickets, positions) # {}) =>
          /\ \E e \in closed_levels' : e \notin closed_levels /\ e.ts = clock
          /\ GoneTickets(seen_tickets, positions) \cap seen_tickets' = {}
      ]_vars

\* C19: no step of the worker (initial ladder, Grid Maintainer, Mirror
\* Handler) sends a placement at a price for which the cool-down ledger holds
\* an entry when the step starts.
C19_CoolDownBlocks ==
    [][pc' # pc =>
          \A c \in tried' : \A e \in closed_levels : e.price # c.price]_vars

\* A tick went by a free rung of the ladder without a placement, the ledger
\* holding an entry for it.
C19_Witness ==
    /\ pc = "mirror"
    /\ \E e \in closed_levels :
          /\ e.price = Rung(Align(price), ORDER_TYPE_BUY_STOP, 1)
          /\ e.price > ask + min_dist
          /\ ~PositionAt(e.price)
          /\ ~PendingAt(orders, e.price)
          /\ brokerAccepts
          /\ nextTicket <= MaxTicket
          /\ e.price \notin CallsOf(tried, ORDER_TYPE_BUY_STOP)

(***************************************************************************)
(* The worker's tick with a pending order far above the market left on the *)
(* broker's book from before the run.                                      *)
(***************************************************************************)
FarBook ==
    {[ticket |-> OldTicket, type |-> ORDER_TYPE_BUY_STOP,
      price_open |-> AskLow + AskSteps * Point
                       + brick_size * (max_up * PruneMultiplier) + brick_size]}

InitFar ==
    /\ ask \in Asks
    /\ orders = FarBook
    /\ positions = {}
    /\ nextTicket = 1
    /\ brokerAccepts = TRUE
    /\ ticketless = FALSE
    /\ clock = 0
    /\ budget = MaxEvents
    /\ trading_active = TRUE
    /\ cfg \in Configs
    /\ pending_cache = {}
    /\ last_price = NoPrice
    /\ closed_levels = {}
    /\ initial_anchors = {}
    /\ seen_tickets = {}
    /\ pc = "top"
    /\ price = 0
    /\ now = 0
    /\ tried = {}
    /\ expired = {}
    /\ al = Idle /\ pr = Idle /\ tr = Idle /\ lk = Idle /\ co = Idle

NextFar ==
    \/ TickBegin
    \/ InitialGrid
    \/ UpdateGrid
    \/ Mirrors
    \/ PriceMove
    \/ Fill
    \/ PositionClose

SpecFar == InitFar /\ [][NextFar]_vars

\* C20: in a tick that is not skipped the Far-Order Pruner has run before the
\* Grid Maintainer: when the Grid Maintainer starts, no pending order is left
\* that the pruner cancels at the tick's price (a buy-stop above, or a
\* sell-stop below, three ladders from the price and not an anchor).
C20_PruneFirst ==
    [][(pc = "update" /\ pc' = "mirror") =>
          cancel_far_orders_preserve(orders, price, initial_anchors) = {}]_vars

(***************************************************************************)
(* The pending-order ceiling: several threads place orders for one symbol  *)
(* through _place_order_and_handle_return while the broker fills or        *)
(* cancels pending orders.  An order is its ticket.                        *)
(***************************************************************************)
Placers == {"w1", "w2"}
CeilingStart == 59
MaxCalls == 3
MaxRemovals == 2

InitCeiling ==
    /\ EngineAtRest
    /\ lk = [pc |-> "ceiling", mt5_lock |-> "free",
             book |-> 1 .. CeilingStart, next |-> CeilingStart + 1,
             at |-> [t \in Placers |-> "idle"],
             calls |-> 0, sent |-> 0, removals |-> 0]
    /\ al = Idle /\ pr = Idle /\ tr = Idle /\ co = Idle

\* utils.py line 186: "with mt5_lock" around place_order.
LockAcquire(t) ==
    /\ lk.pc = "ceiling"
    /\ lk.at[t] = "idle"
    /\ lk.calls < MaxCalls
    /\ lk.mt5_lock = "free"
    /\ lk' = [lk EXCEPT !.mt5_lock = t, !.at[t] = "check", !.calls = @ + 1]
    /\ UNCHANGED <<engineVars, al, pr, tr, co>>

\* order_manager.py lines 39-41: place_order returns None when
\* can_place_order is false.
CeilingCheck(t) ==
    /\ lk.pc = "ceiling"
    /\ lk.at[t] = "check"
    /\ lk' = [lk EXCEPT !.at[t] = IF can_place_order(lk.book)
                                  THEN "send" ELSE "rejected"]
    /\ UNCHANGED <<engineVars, al, pr, tr, co>>

\* order_manager.py line 70: mt5.order_send; the broker books the order or
\* refuses it.
OrderSend(t) ==
    /\ lk.pc = "ceiling"
    /\ lk.at[t] = "send"
    /\ \E done \in BOOLEAN :
          lk' = [lk EXCEPT !.at[t] = "returned",
                           !.sent = @ + 1,
                           !.book = IF done THEN @ \cup {lk.next} ELSE @,
                           !.next = IF done THEN @ + 1 ELSE @]
    /\ UNCHANGED <<engineVars, al, pr, tr, co>>

\* The end of the "with mt5_lock" block.
LockRelease(t) ==
    /\ lk.pc = "ceiling"
    /\ lk.at[t] \in {"rejected", "returned"}
    /\ lk' = [lk EXCEPT !.mt5_lock = "free", !.at[t] = "idle"]
    /\ UNCHANGED <<engineVars, al, pr, tr, co>>

\* A pending order is filled or cancelled at the broker.
BookShrinks ==
    /\ lk.pc = "ceiling"
    /\ lk.removals < MaxRemovals
    /\ \E o \in lk.book :
          lk' = [lk EXCEPT !.book = @ \ {o}, !.removals = @ + 1]
    /\ UNCHANGED <<engineVars, al, pr, tr, co>>

NextCeiling ==
    \/ \E t \in Placers : LockAcquire(t)
    \/ \E t \in Placers : CeilingCheck(t)
    \/ \E t \in Placers : OrderSend(t)
    \/ \E t \in Placers : LockRelease(t)
    \/ BookShrinks

SpecCeiling == InitCeiling /\ [][NextCeiling]_vars

FILLING_MODES == <<"ORDER_FILLING_RETURN", "ORDER_FILLING_FOK", "ORDER_FILLING_IOC">>

InitFill ==
    /\ EngineAtRest
    /\ pr \in [pc : {"request"},
               op : {"place_order", "send_order_fast"},
               type : {ORDER_TYPE_BUY_STOP, ORDER_TYPE_SELL_STOP},
               price : Asks,
               accepts : SUBSET {FILLING_MODES[i] : i \in 1 .. Len(FILLING_MODES)},
               attempts : {<<>>},
               result : {"none"}]
    /\ al = Idle /\ tr = Idle /\ lk = Idle /\ co = Idle

\* order_manager.place_order lines 55-76: one request with
\* type_filling = ORDER_FILLING_RETURN, one order_send, None unless the
\* return code is TRADE_RETCODE_DONE.
PlaceOrderSend ==
    /\ pr.pc = "request"
    /\ pr.op = "place_order"
    /\ pr' = [pr EXCEPT !.pc = "returned",
                        !.attempts = <<"ORDER_FILLING_RETURN">>,
                        !.result = IF "ORDER_FILLING_RETURN" \in pr.accepts
                                   THEN "done" ELSE "None"]
    /\ UNCHANGED <<engineVars, al, tr, lk, co>>

\* send_order_fast: one pass of "for mode in FILLING_MODES".
send_order_fast ==
    /\ pr.pc \in {"request", "sending"}
    /\ pr.op = "send_order_fast"
    /\ LET mode == FILLING_MODES[Len(pr.attempts) + 1]
           done == mode \in pr.accepts
           last == Len(pr.attempts) + 1 = Len(FILLING_MODES)
       IN  pr' = [pr EXCEPT !.attempts = Append(@, mode),
                            !.result = IF done THEN "done" ELSE "failed",
                            !.pc = IF done \/ last
                                   THEN "returned" ELSE "sending"]
    /\ UNCHANGED <<engineVars, al, tr, lk, co>>

NextFill == PlaceOrderSend \/ send_order_fast

SpecFill == InitFill /\ [][NextFill]_vars

\* C14: a placement that has returned has tried the fill modes of
\* FILLING_MODES in order, none after a success and none skipped: its attempts
\* are a prefix of the list, every attempt but the last was refused, and the
\* last one either succeeded or was the last mode of the list.
C14_FillModes ==
    (pr.pc = "returned" /\ pr.op = "place_order") =>
        /\ Len(pr.attempts) \in 1 .. Len(FILLING_MODES)
        /\ \A i \in 1 .. Len(pr.attempts) :
              /\ pr.attempts[i] = FILLING_MODES[i]
              /\ i < Len(pr.attempts) => pr.attempts[i] \notin pr.accepts
        /\ \/ pr.attempts[Len(pr.attempts)] \in pr.accepts
           \/ Len(pr.attempts) = Len(FILLING_MODES)

(***************************************************************************)
(* The life of a run: main_routes.py starts and stops runs and restarts    *)
(* them when the configuration file changes; run_dynamic_grid connects,    *)
(* starts one thread per active symbol and waits; run_symbol_loop tests    *)
(* the flag at the top of each tick and survives exceptions of the tick.   *)
(* A configuration is the set of its active symbols.                       *)
(***************************************************************************)
LifeSymbols == {"s1", "s2"}
MaxRuns == 2
MaxEdits == 1
MaxFaults == 1
Runs == 1 .. MaxRuns
Workers == Runs \X LifeSymbols
Live == {"loop", "tick", "except"}

\* Line 531: the test of "while trading_active_flag()".
LoopForever(flag) == TRUE
LoopContinues(flag) == flag

\* Lines 616-618: after an exception the worker sleeps and loops.
ExceptEnds == "done"
ExceptSleeps == "loop"

NewRuns == {r \in Runs : co.run[r].pc = "none"}
NewRun == CHOOSE r \in NewRuns : \A q \in NewRuns : r <= q

InitLife ==
    /\ EngineAtRest
    /\ \E file \in SUBSET LifeSymbols :
          co = [pc |-> "life", trading_active |-> FALSE,
                status_type |-> "None", file |-> file, changed |-> FALSE,
                edits |-> 0, watcher |-> "watch",
                run |-> [r \in Runs |-> [pc |-> "none", active |-> {},
                                         by |-> "none"]],
                worker |-> [w \in Workers |-> "none"],
                faulted |-> {}]
    /\ al = Idle /\ pr = Idle /\ tr = Idle /\ lk = Idle

\* The record after start_trading_loop, called by "by".
Started(c, by) ==
    IF c.trading_active \/ NewRuns = {} THEN c
    ELSE [c EXCEPT !.trading_active = TRUE, !.status_type = "success",
                   !.run[NewRun] = [pc |-> "connect", active |-> c.file,
                                    by |-> by]]

\* The record after stop_trading_loop.
Stopped(c) ==
    IF ~c.trading_active THEN c
    ELSE [c EXCEPT !.trading_active = FALSE, !.status_type = "success"]

\* main_routes.start_trading_loop, from the start route.
start_trading_loop ==
    /\ co.pc = "life"
    /\ ~co.trading_active
    /\ NewRuns # {}
    /\ co' = Started(co, "route")
    /\ UNCHANGED <<engineVars, al, pr, tr, lk>>

\* main_routes.stop_trading_loop, from the stop route.
stop_engine ==
    /\ co.pc = "life"
    /\ co.trading_active
    /\ co' = Stopped(co)
    /\ UNCHANGED <<engineVars, al, pr, tr, lk>>

\* trading_wrapper and run_dynamic_grid up to the wait loop: initialize_mt5
\* succeeds or fails; on failure, and with no active symbol, run_dynamic_grid
\* returns and the wrapper's "finally" clears the flag.
trading_wrapper(r) ==
    /\ co.pc = "life"
    /\ co.run[r].pc = "connect"
    /\ \E connected \in BOOLEAN :
          co' = IF ~connected
                THEN [co EXCEPT !.run[r].pc = "failed",
                                !.trading_active = FALSE]
                ELSE IF co.run[r].active = {}
                THEN [co EXCEPT !.run[r].pc = "done",
                                !.trading_active = FALSE]
                ELSE [co EXCEPT !.run[r].pc = "wait",
                                !.worker = [w \in Workers |->
                                    IF w[1] = r /\ w[2] \in co.run[r].active
                                    THEN "loop" ELSE @[w]]]
    /\ UNCHANGED <<engineVars, al, pr, tr, lk>>

\* Lines 646-647: the wait loop finds the flag cleared.
WaitEnds(r) ==
    /\ co.pc = "life"
    /\ co.run[r].pc = "wait"
    /\ ~co.trading_active
    /\ co' = [co EXCEPT !.run[r].pc = "return"]
    /\ UNCHANGED <<engineVars, al, pr, tr, lk>>

\* main_routes.py lines 82-84: the wrapper's "finally".
WrapperFinally(r) ==
    /\ co.pc = "life"
    /\ co.run[r].pc = "return"
    /\ co' = [co EXCEPT !.run[r].pc = "done", !.trading_active = FALSE]
    /\ UNCHANGED <<engineVars, al, pr, tr, lk>>

\* Line 531: the worker tests the flag.
LoopTest(w) ==
    /\ co.pc = "life"
    /\ co.worker[w] = "loop"
    /\ co' = [co EXCEPT !.worker[w] = IF LoopContinues(co.trading_active)
                                      THEN "tick" ELSE "done"]
    /\ UNCHANGED <<engineVars, al, pr, tr, lk>>

\* Lines 532-614: the tick and the sleep after it.
Tick(w) ==
    /\ co.pc = "life"
    /\ co.worker[w] = "tick"
    /\ co' = [co EXCEPT !.worker[w] = "loop"]
    /\ UNCHANGED <<engineVars, al, pr, tr, lk>>

\* Line 616: the tick raises an exception.
TickRaises(w) ==
    /\ co.pc = "life"
    /\ co.worker[w] = "tick"
    /\ Cardinality(co.faulted) < MaxFaults
    /\ co' = [co EXCEPT !.worker[w] = "except", !.faulted = @ \cup {w}]
    /\ UNCHANGED <<engineVars, al, pr, tr, lk>>

\* Lines 617-618: traceback.print_exc(); time.sleep(1).
ExceptHandler(w) ==
    /\ co.pc = "life"
    /\ co.worker[w] = "except"
    /\ co' = [co EXCEPT !.worker[w] = ExceptSleeps]
    /\ UNCHANGED <<engineVars, al, pr, tr, lk>>

\* The configuration file is saved with another set of active symbols.
ConfigEdit ==
    /\ co.pc = "life"
    /\ co.edits < MaxEdits
    /\ \E file \in (SUBSET LifeSymbols) \ {co.file} :
          co' = [co EXCEPT !.file = file, !.changed = TRUE, !.edits = @ + 1]
    /\ UNCHANGED <<engineVars, al, pr, tr, lk>>

\* watch_config_changes lines 124-127: the change is seen,
\* stop_trading_loop() is called and the watcher sleeps.
WatcherStops ==
    /\ co.pc = "life"
    /\ co.watcher = "watch"
    /\ co.changed
    /\ co' = [Stopped(co) EXCEPT !.changed = FALSE, !.watcher = "pause"]
    /\ UNCHANGED <<engineVars, al, pr, tr, lk>>

\* watch_config_changes line 128: start_trading_loop() after the sleep.
WatcherStarts ==
    /\ co.pc = "life"
    /\ co.watcher = "pause"
    /\ co' = [Started(co, "watcher") EXCEPT !.watcher = "watch"]
    /\ UNCHANGED <<engineVars, al, pr, tr, lk>>

NextLife ==
    \/ start_trading_loop
    \/ stop_engine
    \/ \E r \in Runs : trading_wrapper(r)
    \/ \E r \in Runs : WaitEnds(r)
    \/ \E r \in Runs : WrapperFinally(r)
    \/ \E w \in Workers : LoopTest(w)
    \/ \E w \in Workers : Tick(w)
    \/ \E w \in Workers : TickRaises(w)
    \/ \E w \in Workers : ExceptHandler(w)
    \/ ConfigEdit
    \/ WatcherStops
    \/ WatcherStarts

SpecLife == InitLife /\ [][NextLife]_vars

\* The threads are scheduled: a thread that can take its next step takes it.
\* A tick returns or raises, so the fairness is on the tick's return.
SpecLifeFair ==
    /\ SpecLife
    /\ \A w \in Workers :
          WF_vars(LoopTest(w)) /\ WF_vars(Tick(w)) /\ WF_vars(ExceptHandler(w))
    /\ \A r \in Runs :
          WF_vars(trading_wrapper(r) \/ WaitEnds(r) \/ WrapperFinally(r))

\* C11: an exception in a worker's tick ends neither that worker nor another:
\* a worker only ends at the loop test with the flag cleared, the step that
\* raises changes no other worker, and the handler leads back to the loop
\* test.
C11_Contained ==
    [][co.pc = "life" =>
          \A w \in Workers :
              /\ (co.worker[w] # "done" /\ co'.worker[w] = "done") =>
                     (co.worker[w] = "loop" /\ ~co.trading_active)
              /\ (co.worker[w] = "tick" /\ co'.worker[w] = "except") =>
                     \A v \in Workers \ {w} : co'.worker[v] = co.worker[v]
              /\ (co.worker[w] = "except" /\ co'.worker[w] # "except") =>
                     co'.worker[w] = "loop"
      ]_vars

\* A worker whose tick raised is in a later tick, and the other worker of the
\* run is still running.
C11_Witness ==
    /\ co.pc = "life"
    /\ co.trading_active
    /\ \E w \in co.faulted :
          /\ co.worker[w] = "tick"
          /\ \E v \in Workers \ {w} :
                v[1] = w[1] /\ co.worker[v] \in {"loop", "tick"}

\* C12: when the connection fails at the start of a run, the run has no
\* worker, the flag is cleared and the status reports the error.
C12_ConnectFailure ==
    [][co.pc = "life" =>
          \A r \in Runs :
              (co.run[r].pc = "connect" /\ co'.run[r].pc = "failed") =>
                  /\ \A s \in LifeSymbols : co'.worker[<<r, s>>] = "none"
                  /\ ~co'.trading_active
                  /\ co'.status_type = "error"
      ]_vars

\* C15: no worker of a run starts a tick once a later run has been started
\* by the configuration watcher.
C15_NoOldTick ==
    [][co.pc = "life" =>
          \A w \in Workers :
              (co.worker[w] = "loop" /\ co'.worker[w] = "tick") =>
                  ~\E q \in Runs : q > w[1] /\ co.run[q].by = "watcher"
      ]_vars

\* C16: a worker starts a tick only with the flag set, and once the flag
\* stays cleared every worker and every coordinator ends.
C16_Cancellation ==
    /\ [][co.pc = "life" =>
             \A w \in Workers :
                 (co.worker[w] = "loop" /\ co'.worker[w] = "tick") =>
                     co.trading_active
         ]_vars
    /\ (<>[](~co.trading_active)) =>
           <>[](/\ \A w \in Workers : co.worker[w] \notin Live
                /\ \A r \in Runs : co.run[r].pc \in {"none", "failed", "done"})

\* A run with workers was stopped: its workers and its coordinator have
\* ended.
C16_Witness ==
    /\ co.pc = "life"
    /\ ~co.trading_active
    /\ \E r \in Runs :
          /\ co.run[r].pc = "done"
          /\ co.run[r].active = LifeSymbols
          /\ \A s \in LifeSymbols : co.worker[<<r, s>>] = "done"

\* C17: while the latest run waits with the flag set, each of its active
\* symbols has exactly one running worker and no other symbol has one.
C17_OneWorkerPerActive ==
    co.pc = "life" =>
        \A r \in Runs :
            (/\ co.run[r].pc = "wait"
             /\ co.trading_active
             /\ \A q \in Runs : q > r => co.run[q].pc = "none") =>
                \A s \in LifeSymbols :
                    Cardinality({q \in Runs : co.worker[<<q, s>>] \in Live})
                        = IF s \in co.run[r].active THEN 1 ELSE 0

(***************************************************************************)
(* The configuration reload of the trailing loop: the file is saved or     *)
(* removed from time to time and try_reload_config runs once per pass.     *)
(* A configuration is its credentials (auth) and the rest of it (body);    *)
(* the file may also hold text load_config_file rejects.                   *)
(***************************************************************************)
MaxMtime == 3

FileStates ==
    [present : BOOLEAN, valid : BOOLEAN, auth : {"auth1", "auth2"},
     body : {"body1", "body2"}, mtime : 1 .. MaxMtime]

\* Lines 72-78: the credentials of the reloaded configuration.
reloaded_auth_new(new_auth, AUTH, config_auth) == new_auth
reloaded_auth(new_auth, AUTH, config_auth) ==
    IF new_auth # AUTH THEN config_auth ELSE new_auth

\* Lines 36-46: the initial load succeeded; os.path.getmtime gave the time
\* or raised (_last_mtime = None).
InitReload ==
    /\ EngineAtRest
    /\ \E f \in FileStates, known \in BOOLEAN :
          /\ f.present /\ f.valid
          /\ tr = [pc |-> "reload", file |-> f,
                   CONFIG |-> [auth |-> f.auth, body |-> f.body],
                   AUTH |-> f.auth,
                   last_mtime |-> IF known THEN f.mtime ELSE NoValue,
                   result |-> "none"]
    /\ al = Idle /\ pr = Idle /\ lk = Idle /\ co = Idle

\* The file is written, touched, restored or removed.
FileSaved ==
    /\ tr.pc = "reload"
    /\ \E f \in FileStates \ {tr.file} :
          tr' = [tr EXCEPT !.file = f, !.result = "none"]
    /\ UNCHANGED <<engineVars, al, pr, lk, co>>

\* try_reload_config, lines 56-85.
try_reload_config ==
    /\ tr.pc = "reload"
    /\ LET f == tr.file
       IN  tr' = IF ~f.present
                 THEN [tr EXCEPT !.result = "missing"]
                 ELSE IF ~(tr.last_mtime = NoValue \/ f.mtime > tr.last_mtime)
                 THEN [tr EXCEPT !.result = "unchanged"]
                 ELSE IF ~f.valid
                 THEN [tr EXCEPT !.last_mtime = f.mtime, !.result = "failed"]
                 ELSE [tr EXCEPT
                         !.CONFIG = [auth |-> reloaded_auth(f.auth, tr.AUTH,
                                                            tr.CONFIG.auth),
                                     body |-> f.body],
                         !.last_mtime = f.mtime,
                         !.result = "reloaded"]
    /\ UNCHANGED <<engineVars, al, pr, lk, co>>

NextReload == FileSaved \/ try_reload_config

SpecReload == InitReload /\ [][NextReload]_vars

\* C23: whatever is reloaded, the credentials in memory stay the ones loaded
\* at start; a reload that fails leaves the configuration in memory as it
\* was, and the file is parsed only when its modification time differs from
\* the one recorded at the last attempt (which a failed attempt records).
C23_Reload ==
    [][tr.pc = "reload" =>
          /\ tr'.AUTH = tr.AUTH
          /\ tr'.CONFIG.auth = tr.AUTH
          /\ tr'.result = "failed" =>
                /\ tr'.CONFIG = tr.CONFIG
                /\ tr'.last_mtime = tr.file.mtime
          /\ tr'.result \in {"failed", "reloaded"} =>
                (tr.last_mtime = NoValue \/ tr.file.mtime # tr.last_mtime)
      ]_vars

\* A file with other credentials was reloaded: the rest of the configuration
\* was taken from it, the credentials were not.
C23_Witness ==
    /\ tr.pc = "reload"
    /\ tr.result = "reloaded"
    /\ tr.file.auth # tr.AUTH
    /\ tr.CONFIG.body = tr.file.body
    /\ tr.CONFIG.auth = tr.AUTH

(***************************************************************************)
(* The worker with a grid_tolerance of one brick: ticks whose price is     *)
(* less than a brick from the last processed price are skipped.            *)
(***************************************************************************)
InitSkip ==
    /\ InitEngine(TRUE,
                  {[trade_side |-> "both", grid_rounding |-> "nearest",
                    grid_tolerance |-> brick_size]},
                  {{}})
    /\ al = Idle /\ pr = Idle /\ tr = Idle /\ lk = Idle /\ co = Idle

SpecSkip == InitSkip /\ [][NextCool]_vars

\* C24: a tick whose price is within the tolerance of the last processed
\* price sends nothing and changes neither the broker's book nor last_price,
\* the AnchorSet, the SeenTicketSet or the cool-down entries its cleanup did
\* not expire; last_price changes only at the end of a tick that was not
\* skipped.
C24_SkippedTick ==
    [][/\ (/\ pc = "top"
           /\ trading_active
           /\ budget' = budget /\ clock' = clock
           /\ last_price # NoPrice
           /\ Abs(ask - last_price) < cfg.grid_tolerance) =>
              /\ pc' = "top"
              /\ tried' = {}
              /\ orders' = orders /\ positions' = positions
              /\ last_price' = last_price
              /\ initial_anchors' = initial_anchors
              /\ seen_tickets' = seen_tickets
              /\ closed_levels' = {e \in closed_levels : e.price \notin expired'}
       /\ last_price' # last_price => (pc = "mirror" /\ pc' = "top")
      ]_vars

\* A tick was skipped with the price off the last processed price, a rung of
\* the ladder around it free and the broker ready to take an order.
C24_Witness ==
    /\ pc = "top"
    /\ trading_active
    /\ last_price # NoPrice
    /\ price = ask
    /\ price # last_price
    /\ Abs(price - last_price) < cfg.grid_tolerance
    /\ tried = {}
    /\ brokerAccepts /\ nextTicket <= MaxTicket
    /\ \E i \in 1 .. max_up :
          LET p == Rung(Align(price), ORDER_TYPE_BUY_STOP, i)
          IN  /\ ~PendingAt(orders, p) /\ ~PositionAt(p)
              /\ p \notin pending_cache /\ p \notin ClosedPrices
              /\ p > ask + min_dist

(***************************************************************************)
(* The checks of safe_place_order alone: a cache, the broker's pending      *)
(* orders and open positions (by price), a level and an order type are     *)
(* given.  The gateway answers a query or fails: orders_get and            *)
(* positions_get give None or raise, which helpers.fetch_pending_orders    *)
(* and fetch_positions turn into an empty list; symbol_info and            *)
(* symbol_info_tick give None.                                             *)
(***************************************************************************)
InitExists ==
    /\ EngineAtRest
    /\ al \in [pc : {"exists"},
               cache : SUBSET {AskLow + Point, AskLow + Point + brick_size},
               pending : SUBSET {AskLow + Point, AskLow + Point + brick_size},
               open : SUBSET {AskLow + brick_size, AskLow + 2 * brick_size},
               price_aligned : {AskLow + Point, AskLow + Point + brick_size},
               orders_get : BOOLEAN, positions_get : BOOLEAN,
               queried : {FALSE}, result : {"none"},
               order_type : {ORDER_TYPE_BUY_STOP, ORDER_TYPE_SELL_STOP},
               trade_stops_level : {0, 2},
               symbol_info : BOOLEAN, symbol_info_tick : BOOLEAN,
               placement : {"none"}]
    /\ pr = Idle /\ tr = Idle /\ lk = Idle /\ co = Idle

\* utils.py lines 200-236.
level_check ==
    /\ al.pc = "exists"
    /\ LET pending == IF al.orders_get THEN al.pending ELSE {}
           found_pending == \E po \in pending : Align(po) = al.price_aligned
           fetched == IF al.positions_get THEN al.open ELSE {}
           found_open == \E raw \in fetched : Align(raw) = al.price_aligned
       IN  al' = IF al.price_aligned \in al.cache
                 THEN [al EXCEPT !.pc = "returned", !.result = "True"]
                 ELSE IF found_pending
                 THEN [al EXCEPT !.pc = "returned", !.result = "True",
                                 !.queried = TRUE,
                                 !.cache = @ \cup {al.price_aligned}]
                 ELSE [al EXCEPT !.pc = "returned", !.queried = TRUE,
                                 !.result = IF found_open
                                            THEN "True" ELSE "False"]
    /\ UNCHANGED <<engineVars, pr, tr, lk, co>>

\* utils.py lines 264-324 for a level the existence check found free and
\* that carries no order and no position (order_exists and the opposing
\* position check then pass as well): the broker's minimum distance, checked
\* when symbol_info and symbol_info_tick both gave an answer; then the
\* placement.
min_distance_check ==
    /\ al.pc = "returned"
    /\ al.result = "False"
    /\ al.price_aligned \notin al.pending \cup al.open
    /\ LET dist == al.trade_stops_level * Point
           too_close ==
               \/ /\ al.order_type = ORDER_TYPE_BUY_STOP
                  /\ al.price_aligned <= ask + dist
               \/ /\ al.order_type = ORDER_TYPE_SELL_STOP
                  /\ al.price_aligned >= bid - dist
       IN  al' = [al EXCEPT
                    !.pc = "checked",
                    !.placement =
                        IF al.symbol_info /\ al.symbol_info_tick /\ too_close
                        THEN "rejected" ELSE "sent"]
    /\ UNCHANGED <<engineVars, pr, tr, lk, co>>

SpecExists == InitExists /\ [][level_check \/ min_distance_check]_vars

\* C26: the check answers true for a cached level without asking the broker;
\* otherwise it asks, answers true when a query fails, and else answers true
\* exactly when a pending order or an open position aligns to the level.
C26_ExistsAt ==
    al.pc = "returned" =>
        IF al.price_aligned \in al.cache /\ ~al.queried
        THEN al.result = "True"
        ELSE /\ al.queried
             /\ al.result = "True" <=>
                   \/ ~al.orders_get
                   \/ \E po \in al.pending : Align(po) = al.price_aligned
                   \/ ~al.positions_get
                   \/ \E raw \in al.open : Align(raw) = al.price_aligned

\* C27: no buy-stop placement goes out at a price <= ask + minimum distance
\* and no sell-stop placement at a price >= bid - minimum distance, whether
\* or not the symbol info and the tick were available at the check.
C27_MinDistance ==
    (al.pc = "checked" /\ al.placement = "sent") =>
        /\ al.order_type = ORDER_TYPE_BUY_STOP =>
              al.price_aligned > ask + al.trade_stops_level * Point
        /\ al.order_type = ORDER_TYPE_SELL_STOP =>
              al.price_aligned < bid - al.trade_stops_level * Point

\* C28: a symbol configured with trade side "buy" never has a sell-stop
\* placement sent (initial ladder, ladder expansion or mirror), and one
\* configured "sell" never a buy-stop placement.
C28_TradeSide ==
    /\ cfg.trade_side = "buy" => CallsOf(tried, ORDER_TYPE_SELL_STOP) = {}
    /\ cfg.trade_side = "sell" => CallsOf(tried, ORDER_TYPE_BUY_STOP) = {}
C28_Witness ==
    /\ cfg.trade_side = "buy"
    /\ CallsOf(tried, ORDER_TYPE_BUY_STOP) # {}
    /\ \E q \in positions : q.type = ORDER_TYPE_BUY /\ TicketKey(q) \notin seen_tickets
    /\ pc = "mirror"

\* C29: when an anchor price has no pending order at the broker at a tick,
\* the worker attempts a placement at that anchor price in that tick.  Taken
\* here in its most favourable case: the anchor carries no position either,
\* is not cooling down, and lies on the permitted side of the market beyond
\* the minimum distance.
C29_AnchorReplaced ==
    [][(pc = "update" /\ pc' = "mirror") =>
          \A a \in initial_anchors :
              (/\ ~PendingAt(orders, a)
               /\ ~PositionAt(a)
               /\ a \notin ClosedPrices
               /\ \E order_type \in {ORDER_TYPE_BUY_STOP, ORDER_TYPE_SELL_STOP} :
                      SidePermits(order_type) /\ ~TooClose(order_type, a))
              => \E c \in tried' : c.price = a
      ]_vars

\* C30: a rung within the level count of the nearest-aligned tick price that
\* has no pending order, and to which no rejection check applies (permitted
\* side, no position, no cool-down, beyond the minimum distance), has a
\* placement request sent by the update_grid step of the tick.
C30_SelfHealing ==
    [][(pc = "update" /\ pc' = "mirror") =>
          \A order_type \in {ORDER_TYPE_BUY_STOP, ORDER_TYPE_SELL_STOP} :
              \A i \in 1 .. (IF order_type = ORDER_TYPE_BUY_STOP
                             THEN max_up ELSE max_down) :
                  LET rung == Rung(align_price_to_grid_symbol(
                                       price, brick_size, "nearest"),
                                   order_type, i)
                  IN  (/\ SidePermits(order_type)
                       /\ ~PendingAt(orders, rung)
                       /\ ~PositionAt(rung)
                       /\ rung \notin ClosedPrices
                       /\ ~TooClose(order_type, rung))
                      => rung \in CallsOf(tried', order_type)
      ]_vars

\* A later tick has just requested a rung of the initial ladder again: its
\* order was removed, and no position stands at it.
C30_Witness ==
    /\ pc = "mirror"
    /\ last_price # NoPrice
    /\ \E c \in tried :
          /\ c.price \in initial_anchors
          /\ ~PositionAt(c.price)
          /\ \A q \in positions : q.ticket = OldTicket

\* C31: a placement the broker rejects is a no-op: in the step that made the
\* request the price is not added to the pending-price cache, a cool-down
\* entry appears only where a seen ticketless position vanished, and the
\* worker does not stop; and the update_grid step of a tick requests every
\* rung to which no rejection check applies, whatever was rejected before.
C31_RejectedNoOp ==
    [][/\ (pc \in {"initial", "update", "mirror"} /\ pc' # pc) =>
             /\ \A c \in tried' :
                    ~PendingAt(orders', c.price) => c.price \notin pending_cache'
             /\ \A e \in closed_levels' \ closed_levels :
                    <<"price_volume", e.price>> \in seen_tickets \ seen_tickets'
             /\ pc' # "done"
       /\ (pc = "update" /\ pc' = "mirror" /\ ~brokerAccepts) =>
             \A order_type \in {ORDER_TYPE_BUY_STOP, ORDER_TYPE_SELL_STOP} :
                 \A i \in 1 .. (IF order_type = ORDER_TYPE_BUY_STOP
                                THEN max_up ELSE max_down) :
                     LET rung == Rung(align_price_to_grid_symbol(
                                          price, brick_size, "nearest"),
                                      order_type, i)
                     IN  (/\ SidePermits(order_type)
                          /\ ~PendingAt(orders, rung)
                          /\ ~PositionAt(rung)
                          /\ rung \notin ClosedPrices
                          /\ ~TooClose(order_type, rung))
                         => /\ rung \in CallsOf(tried', order_type)
                            /\ rung \notin pending_cache'
      ]_vars

\* No order was ever accepted, the initial ladder of the first tick was
\* rejected, and a later tick has just requested one of its prices again.
C31_Witness ==
    /\ pc = "mirror"
    /\ last_price # NoPrice
    /\ nextTicket = 1
    /\ ~brokerAccepts
    /\ \E c \in tried : c.price \in initial_anchors /\ c.price \notin pending_cache

\* C32: within one tick at most one placement request is sent for an aligned
\* price: a step of the tick (update_grid after the initial ladder, the
\* mirror handler after update_grid) requests no price that the step before
\* it requested.
C32_OneRequestPerTick ==
    [][((pc = "update" /\ pc' = "mirror") \/ (pc = "mirror" /\ pc' = "top")) =>
          \A c \in tried : \A d \in tried' : Align(c.price) # Align(d.price)
      ]_vars

\* C33: after every Mirror Handler pass the seen tickets are exactly the
\* tickets of the positions the broker reported in that pass.
C33_SeenIsReported ==
    [][(pc = "mirror" /\ pc' = "top") =>
          seen_tickets' = {TicketKey(q) : q \in fetch_positions(positions)}
      ]_vars

\* A pass has removed the ticket of a position that closed (its cool-down
\* has started) and keeps the ticket of one that is open.
C33_Witness ==
    /\ pc = "top"
    /\ closed_levels # {}
    /\ \A e \in closed_levels : <<"price_volume", e.price>> \notin seen_tickets
    /\ seen_tickets # {}
    /\ seen_tickets = {TicketKey(q) : q \in positions}

(***************************************************************************)
(* Two symbol workers of one run (SpecShared).  run_dynamic_grid makes one *)
(* closed_levels dictionary, keyed by price, and hands it to every worker; *)
(* each worker has its own seen tickets.  Each symbol has at most one      *)
(* position, ticketless, at one and the same numeric level; a position     *)
(* that closes does not come back.                                         *)
(*   open: the positions at the broker, had: those of the start,           *)
(*   seen: the key is in the worker's seen tickets,                        *)
(*   closed: the timestamps of closed_levels[level] (none or one),         *)
(*   mirrored: how often the position was handled as newly opened,         *)
(*   blocked: the last closed-level check of safe_place_order at level.    *)
(***************************************************************************)
MaxMirrored == 2

InitShared ==
    /\ EngineAtRest
    /\ pr \in [pc : {"symbols"},
               level : {AskLow + brick_size},
               open : [LifeSymbols -> BOOLEAN],
               had : [LifeSymbols -> BOOLEAN],
               seen : [LifeSymbols -> {FALSE}],
               closed : {{}},
               mirrored : [LifeSymbols -> {0}],
               blocked : [LifeSymbols -> {"none"}],
               time : {0}]
    /\ pr.had = pr.open
    /\ al = Idle /\ tr = Idle /\ lk = Idle /\ co = Idle

\* One tick of the worker of symbol s: the cool-down cleanup (lines
\* 533-538), the closed-level check of a placement at the level (lines
\* 246-248), and the Mirror Handler pass (lines 413-508), whose
\* fetch_positions gives the positions or, on a failure, an empty list.
symbol_tick(s) ==
    /\ pr.pc = "symbols"
    /\ \E answered \in BOOLEAN :
          LET cleaned == {ts \in pr.closed :
                              ~(pr.time - ts > closed_level_block_seconds)}
              reported == answered /\ pr.open[s]
              new == reported /\ ~pr.seen[s]
              gone == pr.seen[s] /\ ~reported
          IN  pr' = [pr EXCEPT
                       !.blocked[s] = IF cleaned # {} THEN "True" ELSE "False",
                       !.mirrored[s] = IF new /\ @ < MaxMirrored THEN @ + 1 ELSE @,
                       !.seen[s] = reported,
                       !.closed = IF gone THEN {pr.time} ELSE cleaned]
    /\ UNCHANGED <<engineVars, al, tr, lk, co>>

\* The broker and the clock: a position closes, or a second passes.
position_closes(s) ==
    /\ pr.pc = "symbols"
    /\ pr.open[s]
    /\ pr' = [pr EXCEPT !.open[s] = FALSE]
    /\ UNCHANGED <<engineVars, al, tr, lk, co>>

second_passes ==
    /\ pr.pc = "symbols"
    /\ pr.time < MaxTime
    /\ pr' = [pr EXCEPT !.time = @ + 1]
    /\ UNCHANGED <<engineVars, al, tr, lk, co>>

SpecShared ==
    InitShared /\ [][\/ \E s \in LifeSymbols : symbol_tick(s) \/ position_closes(s)
                     \/ second_passes]_vars

\* C34: a cool-down entry recorded because a position of one symbol closed
\* never blocks a placement of another symbol: a symbol that never had a
\* position is never blocked at the level.
C34_Isolation ==
    pr.pc = "symbols" =>
        \A s \in LifeSymbols : pr.blocked[s] = "True" => pr.had[s]

\* C35: a position that stays open is handled as newly opened at most once,
\* and no cool-down starts while every position of the start is still open.
C35_NewOnce ==
    pr.pc = "symbols" =>
        /\ \A s \in LifeSymbols : pr.mirrored[s] <= 1
        /\ pr.closed # {} => pr.open # pr.had

\* C36: every price the initial ladder records as an anchor carries an order
\* the broker confirmed in that step, and a non-empty anchor set is never
\* modified.
C36_AnchorsConfirmed ==
    [][/\ \A a \in initial_anchors' \ initial_anchors :
              \E o \in orders' \ orders : Align(o.price_open) = a
       /\ initial_anchors # {} => initial_anchors' = initial_anchors
      ]_vars

\* C37: a configuration change detected while the engine is not running
\* leaves it not running; in particular, while no run has ever been started,
\* the watcher's start_trading_loop() after a change starts none.
C37_WatcherKeepsStopped ==
    [][(/\ co.pc = "life"
        /\ co.watcher = "pause" /\ co'.watcher = "watch"
        /\ \A r \in Runs : co.run[r].pc = "none") =>
           /\ \A r \in Runs : co'.run[r].pc = "none"
           /\ ~co'.trading_active
      ]_vars

\* C38: at most one run executes run_dynamic_grid at any time.
C38_OneRun ==
    co.pc = "life" =>
        Cardinality({r \in Runs : co.run[r].pc \in {"connect", "wait"}}) <= 1

\* C39: the end of a run (the wrapper's "finally") does not clear the flag
\* while another run, started since, executes run_dynamic_grid.
C39_FinallyOwnRun ==
    [][co.pc = "life" =>
          \A r \in Runs :
              (/\ co.run[r].pc \notin {"done", "failed"}
               /\ co'.run[r].pc \in {"done", "failed"}
               /\ \E q \in Runs \ {r} : co.run[q].pc \in {"connect", "wait"}
               /\ co.trading_active)
              => co'.trading_active
      ]_vars

(***************************************************************************)
(* The trailing loop and the engine's flag (SpecStopped).  utils.py starts *)
(* the trailing thread when the module is loaded, with                     *)
(* trading_active_flag = lambda: True (lines 134-139): its loop test does  *)
(* not read the engine's flag.  The engine is stopped and the worker ends  *)
(* at its next loop test, while update_trailing_stop runs again and again. *)
(***************************************************************************)
\* utils.py line 531: the worker's loop test finds the flag cleared.
WorkerEnds ==
    /\ ~trading_active
    /\ TickBegin

SpecStopped ==
    InitTrail /\ [][NextTrail \/ stop_trading_loop \/ WorkerEnds]_vars

\* C40: once the flag is cleared and the worker has ended, no stop-loss
\* modification is sent to the broker.
C40_QuietWhenStopped ==
    [][(~trading_active /\ pc = "done") => tr'.request = NoValue]_vars
====
